---------------------------- MODULE Spec2Model ----------------------------
(***************************************************************************)
(* presto_exporter: the Collect cycle of src/presto_exporter.go.           *)
(*                                                                         *)
(* Every goroutine p of Procs runs Exporter.Collect: three stages          *)
(* (cluster, info, query), each an HTTP GET, a status check, a deferred    *)
(* Body.Close, a ReadAll and a json.Unmarshal, followed by the sends of    *)
(* the samples on the channel ch.  The upstream coordinator is the         *)
(* environment: it answers every GET with a transport error or with a      *)
(* response drawn from the variable upstream.                              *)
(*                                                                         *)
(* Text is a TLA+ string, except the uptime of /v1/info, which is a        *)
(* sequence of one-character strings because it is parsed character by     *)
(* character.  A float64 is a record [m, e]: the number m * 2^e.           *)
(***************************************************************************)
EXTENDS Integers, Sequences, FiniteSets, TLC

\* Bounds of the model.
NumProcs == 2
MaxScrapes == 2
MaxQueries == 2
MaxLen == 4

VARIABLES
    uri,              \* Exporter.uri, set from --web.url at startup
    hostname,         \* package variable hostname, set once by os.Hostname()
    upstream,         \* the documents the coordinator may serve, per endpoint
    scrapers,         \* the goroutines on which the registry calls Collect
    scrapesLeft,      \* Collect invocations the scraper may still start
    pc,               \* pc[p]: position of goroutine p in Collect
    stage,            \* stage[p]: index in Stages of the stage p is in
    id,               \* id[p]: number of the invocation p is running
    resp,             \* resp[p][s]: clusterResp / infoResp / queryResp
    err,              \* err[p]: the local err
    bodies,           \* bodies[p][s]: "none", "open" or "closed" response body
    defers,           \* defers[p]: stages whose Body.Close is deferred
    read,             \* read[p][s]: clusterBody / infoBody / queryBody
    clusterExporter,  \* clusterExporter[p]
    infoExporter,     \* infoExporter[p]
    queryExporter,    \* queryExporter[p].Querys
    ch,               \* ch[p]: samples sent on the channel of this invocation
    requests,         \* requests[p]: URLs this invocation has requested
    log               \* entries written by log.Errorf

vars == <<uri, hostname, upstream, scrapers, scrapesLeft, pc, stage, id, resp, err,
          bodies, defers, read, clusterExporter, infoExporter, queryExporter,
          ch, requests, log>>

Procs == 1..NumProcs

Stages == <<"cluster", "info", "query">>

namespace == "presto_cluster"

StatusOK == 200

\* ------------------------------------------------------------------ numbers

Pow2(k) == 2 ^ k

Pow10(k) == 10 ^ k

\* A float64 is [m, e], the number m * 2^e, with m odd (or m = 0, e = 0), so
\* that equal numbers are equal records.
RECURSIVE Norm(_, _)
Norm(m, e) == IF m = 0 THEN [m |-> 0, e |-> 0]
              ELSE IF m % 2 = 0 THEN Norm(m \div 2, e + 1)
              ELSE [m |-> m, e |-> e]

\* A JSON integer literal decoded into a float64 field.
Float(i) == Norm(i, 0)

\* The integer a float64 with e >= 0 holds.
IntOf(v) == v.m * Pow2(v.e)

F32MantBits == 24

\* Nearest float32 (ties to even) of the non-negative integer n.
RECURSIVE F32RoundInt(_, _)
F32RoundInt(n, unit) ==
    IF n < Pow2(F32MantBits) * unit
    THEN LET q == n \div unit
             r == n % unit
             up == 2 * r > unit \/ (2 * r = unit /\ q % 2 = 1)
         IN (IF up THEN q + 1 ELSE q) * unit
    ELSE F32RoundInt(n, 2 * unit)

\* Nearest float32 (ties to even) of the rational m/d, m >= 0, d > 0, by
\* long division: q collects the leading bits, r is the remainder over d,
\* sh the number of fraction bits in q.
RECURSIVE F32Div(_, _, _, _)
F32Div(q, r, d, sh) ==
    IF q >= Pow2(F32MantBits - 1)
    THEN LET up == 2 * r > d \/ (2 * r = d /\ q % 2 = 1)
         IN Norm(IF up THEN q + 1 ELSE q, -sh)
    ELSE IF r = 0 THEN Norm(q, -sh)
    ELSE F32Div(2 * q + (IF 2 * r >= d THEN 1 ELSE 0),
                IF 2 * r >= d THEN 2 * r - d ELSE 2 * r, d, sh + 1)

F32RoundRat(m, d) ==
    IF m \div d >= Pow2(F32MantBits)
    THEN Float(F32RoundInt(m \div d, 1))
    ELSE F32Div(m \div d, m % d, d, 0)

\* --------------------------------------------------------------------- text

Digit(d) ==
    CASE d = 0 -> "0" [] d = 1 -> "1" [] d = 2 -> "2" [] d = 3 -> "3"
      [] d = 4 -> "4" [] d = 5 -> "5" [] d = 6 -> "6" [] d = 7 -> "7"
      [] d = 8 -> "8" [] d = 9 -> "9"

RECURSIVE Digits(_)
Digits(n) == IF n < 10 THEN Digit(n) ELSE Digits(n \div 10) \o Digit(n % 10)

\* The low `width` decimal digits of n, zero-padded.
RECURSIVE DigitsPad(_, _)
DigitsPad(n, width) ==
    IF width = 0 THEN "" ELSE DigitsPad(n \div 10, width - 1) \o Digit(n % 10)

RECURSIVE NumDigits(_)
NumDigits(n) == IF n < 10 THEN 1 ELSE 1 + NumDigits(n \div 10)

\* strconv.Itoa
Itoa(i) == IF i < 0 THEN "-" \o Digits(-i) ELSE Digits(i)

\* strconv.FormatBool
FormatBool(b) == IF b THEN "true" ELSE "false"

\* %e layout of the decimal sig * 10^(exp - k + 1), sig having k digits.
FmtE(sig, k, exp) ==
    Digit(sig \div Pow10(k - 1))
      \o (IF k > 1 THEN "." \o DigitsPad(sig % Pow10(k - 1), k - 1) ELSE "")
      \o "E+" \o DigitsPad(exp, IF exp < 100 THEN 2 ELSE NumDigits(exp))

\* The shortest decimal that rounds to the float32 f (an integer > 0 of nd
\* digits), searched from k significant digits upwards as strconv's
\* roundShortest does: truncate when that stays in f's rounding interval,
\* round up when that does, round to nearest when both do.
RECURSIVE Shortest32(_, _, _)
Shortest32(f, nd, k) ==
    LET unit == Pow10(nd - k)
        lo == (f \div unit) * unit
        hi == lo + unit
        okdown == F32RoundInt(lo, 1) = f
        okup == F32RoundInt(hi, 1) = f
        half == 2 * (f - lo) > unit \/ (2 * (f - lo) = unit /\ (lo \div unit) % 2 = 1)
    IN IF f = lo THEN [sig |-> lo \div unit, k |-> k, exp |-> nd - 1]
       ELSE IF okdown /\ (~okup \/ ~half) THEN [sig |-> lo \div unit, k |-> k, exp |-> nd - 1]
       ELSE IF okup /\ hi < Pow10(nd) THEN [sig |-> hi \div unit, k |-> k, exp |-> nd - 1]
       ELSE IF okup THEN [sig |-> 1, k |-> 1, exp |-> nd]
       ELSE Shortest32(f, nd, k + 1)

\* strconv.FormatFloat(v, 'E', -1, 32) of a float64 holding an integer >= 0:
\* v is first converted to float32, then printed with the fewest digits
\* that identify that float32.
FormatFloat(v) ==
    LET f == F32RoundInt(IntOf(v), 1)
        s == Shortest32(f, NumDigits(f), 1)
    IN IF f = 0 THEN "0E+00" ELSE FmtE(s.sig, s.k, s.exp)

\* strings.TrimSuffix(s, "d") on a character sequence.
TrimSuffix(s) ==
    IF Len(s) > 0 /\ s[Len(s)] = "d" THEN SubSeq(s, 1, Len(s) - 1) ELSE s

DecimalDigits == {"0", "1", "2", "3", "4", "5", "6", "7", "8", "9"}

DigitVal(c) == CHOOSE d \in 0..9 : Digit(d) = c

CountOf(s, c) == Cardinality({i \in DOMAIN s : s[i] = c})

\* The syntax strconv.ParseFloat accepts among sequences of digits, "." and
\* letters other than e, i, n: digits with at most one ".", at least one digit.
IsDecimal(s) ==
    /\ \A i \in DOMAIN s : s[i] \in DecimalDigits \cup {"."}
    /\ CountOf(s, ".") <= 1
    /\ \E i \in DOMAIN s : s[i] \in DecimalDigits

RECURSIVE Mantissa(_)
Mantissa(s) ==
    IF s = <<>> THEN 0
    ELSE IF s[Len(s)] = "." THEN Mantissa(SubSeq(s, 1, Len(s) - 1))
    ELSE 10 * Mantissa(SubSeq(s, 1, Len(s) - 1)) + DigitVal(s[Len(s)])

FracDigits(s) ==
    IF CountOf(s, ".") = 0 THEN 0
    ELSE Len(s) - (CHOOSE i \in DOMAIN s : s[i] = ".")

\* strconv.ParseFloat(s, 32): the nearest float32, returned as a float64;
\* 0 and a syntax error when s is not a number.
ParseFloat(s) ==
    IF IsDecimal(s)
    THEN [val |-> F32RoundRat(Mantissa(s), Pow10(FracDigits(s))), err |-> "nil"]
    ELSE [val |-> Float(0), err |-> "syntax"]

\* uptimeF, _ := strconv.ParseFloat(strings.TrimSuffix(infoExporter.Uptime, "d"), 32)
UptimeF(uptimeText) == ParseFloat(TrimSuffix(uptimeText)).val

\* ------------------------------------------------- upstream documents

\* JSON documents are functions from keys to values; a key may be absent.
ClusterDocFull ==
    [runningQueries |-> 3, blockedQueries |-> 1, queuedQueries |-> 4,
     activeWorkers |-> 5, runningDrivers |-> 9, reservedMemory |-> 2048,
     totalInputRows |-> 600, totalInputBytes |-> 5300, totalCpuTimeSecs |-> 58]

ClusterDocPartial == [runningQueries |-> 7, activeWorkers |-> 2]

InfoDoc(u) ==
    [nodeVersion |-> [version |-> "0.215"], environment |-> "production",
     coordinator |-> TRUE, starting |-> FALSE, uptime |-> u]

\* cumulativeUserMemory of the i-th query: 1500, 16777217, 0, ...
CumulativeOf(i) == IF i % 3 = 1 THEN 1500 ELSE IF i % 3 = 2 THEN 16777217 ELSE 0

QueryObj(i) ==
    [queryId |-> "q" \o Itoa(i),
     state |-> IF i % 2 = 1 THEN "RUNNING" ELSE "FINISHED",
     scheduled |-> (i % 2 = 1),
     query |-> "SELECT " \o Itoa(i),
     queryStats |->
        [queuedTime |-> Itoa(i) \o ".10ms",
         elapsedTime |-> Itoa(i) \o ".20s",
         executionTime |-> Itoa(i) \o ".30s",
         totalDrivers |-> 7 * i,
         rawInputDataSize |-> Itoa(i) \o "kB",
         cumulativeUserMemory |-> CumulativeOf(i),
         peakUserMemoryReservation |-> Itoa(i) \o "MB",
         totalCpuTime |-> Itoa(i) \o ".40s",
         totalScheduledTime |-> Itoa(i) \o ".50s"]]

QueryList(n) == [i \in 1..n |-> QueryObj(i)]

Alphabet == {"0", "1", "2", "5", ".", "d"}

RECURSIVE TextsOfLen(_)
TextsOfLen(n) ==
    IF n = 0 THEN {<<>>}
    ELSE {Append(t, c) : t \in TextsOfLen(n - 1), c \in Alphabet}

UptimeTexts == UNION {TextsOfLen(n) : n \in 0..MaxLen}

Hostnames == {"exporter-1", ""}

\* -------------------------------------------------------- json.Unmarshal

\* The value json.Unmarshal leaves in a field: the document's when the key
\* is present, the field's previous value otherwise.
Field(obj, key, old) == IF key \in DOMAIN obj THEN obj[key] ELSE old

FloatField(obj, key, old) == IF key \in DOMAIN obj THEN Float(obj[key]) ELSE old

ZeroClusterExporter ==
    [RunningQueries |-> Float(0), BlockedQueries |-> Float(0),
     QueuedQueries |-> Float(0), ActiveWorkers |-> Float(0),
     RunningDrivers |-> Float(0), ReservedMemory |-> Float(0),
     TotalInputRows |-> Float(0), TotalInputBytes |-> Float(0),
     TotalCpuTimeSecs |-> Float(0)]

ZeroInfoExporter ==
    [NodeVersion |-> [Version |-> ""], Environment |-> "",
     Coordinator |-> FALSE, Starting |-> FALSE, Uptime |-> <<>>]

ZeroQueryStats ==
    [QueuedTime |-> "", ElapsedTime |-> "", ExecutionTime |-> "",
     TotalDrivers |-> 0, RawInputDataSize |-> "",
     CumulativeUserMemory |-> Float(0), PeakUserMemoryReservation |-> "",
     TotalCpuTime |-> "", TotalScheduledTime |-> ""]

ZeroQuery ==
    [QueryId |-> "", State |-> "", Scheduled |-> FALSE, Query |-> "",
     QueryStats |-> ZeroQueryStats]

\* The struct tags of ClusterExporter.
UnmarshalCluster(old, doc) ==
    [RunningQueries |-> FloatField(doc, "runningQueries", old.RunningQueries),
     BlockedQueries |-> FloatField(doc, "blockedQueries", old.BlockedQueries),
     QueuedQueries |-> FloatField(doc, "queuedQueries", old.QueuedQueries),
     ActiveWorkers |-> FloatField(doc, "activeWorkers", old.ActiveWorkers),
     RunningDrivers |-> FloatField(doc, "runningDrivers", old.RunningDrivers),
     ReservedMemory |-> FloatField(doc, "reservedMemory", old.ReservedMemory),
     TotalInputRows |-> FloatField(doc, "totalInputRows", old.TotalInputRows),
     TotalInputBytes |-> FloatField(doc, "totalInputBytes", old.TotalInputBytes),
     TotalCpuTimeSecs |-> FloatField(doc, "totalCpuTimeSecs", old.TotalCpuTimeSecs)]

\* The struct tags of InfoExporter.
UnmarshalInfo(old, doc) ==
    [NodeVersion |->
        IF "nodeVersion" \in DOMAIN doc
        THEN [Version |-> Field(doc.nodeVersion, "version", old.NodeVersion.Version)]
        ELSE old.NodeVersion,
     Environment |-> Field(doc, "environment", old.Environment),
     Coordinator |-> Field(doc, "coordinator", old.Coordinator),
     Starting |-> Field(doc, "starting", old.Starting),
     Uptime |-> Field(doc, "uptime", old.Uptime)]

\* The struct tags of Query.QueryStats.
UnmarshalQueryStats(old, obj) ==
    [QueuedTime |-> Field(obj, "queuedTime", old.QueuedTime),
     ElapsedTime |-> Field(obj, "elapsedTime", old.ElapsedTime),
     ExecutionTime |-> Field(obj, "executionTime", old.ExecutionTime),
     TotalDrivers |-> Field(obj, "totalDrivers", old.TotalDrivers),
     RawInputDataSize |-> Field(obj, "rawInputDataSize", old.RawInputDataSize),
     CumulativeUserMemory |->
        FloatField(obj, "cumulativeUserMemory", old.CumulativeUserMemory),
     PeakUserMemoryReservation |->
        Field(obj, "peakUserMemoryReservation", old.PeakUserMemoryReservation),
     TotalCpuTime |-> Field(obj, "totalCpuTime", old.TotalCpuTime),
     TotalScheduledTime |-> Field(obj, "totalScheduledTime", old.TotalScheduledTime)]

\* The struct tags of Query.
UnmarshalQuery(old, obj) ==
    [QueryId |-> Field(obj, "queryId", old.QueryId),
     State |-> Field(obj, "state", old.State),
     Scheduled |-> Field(obj, "scheduled", old.Scheduled),
     Query |-> Field(obj, "query", old.Query),
     QueryStats |->
        IF "queryStats" \in DOMAIN obj
        THEN UnmarshalQueryStats(old.QueryStats, obj.queryStats)
        ELSE old.QueryStats]

\* json.Unmarshal(queryBody, &queryExporter.Querys): one Query per element,
\* in the array's order; an element beyond the slice's old length starts zero.
UnmarshalQuerys(old, doc) ==
    [i \in 1..Len(doc) |->
        UnmarshalQuery(IF i <= Len(old) THEN old[i] ELSE ZeroQuery, doc[i])]

\* ---------------------------------------------------------- descriptors

\* prometheus.BuildFQName(namespace, "", name)
BuildFQName(ns, name) == ns \o "_" \o name

\* prometheus.NewDesc(fqName, help, variableLabels, nil)
NewDesc(fqName, variableLabels) ==
    [fqName |-> fqName, variableLabels |-> variableLabels]

runningQueries == NewDesc(BuildFQName(namespace, "running_queries"), <<"hostname">>)

blockedQueries == NewDesc(BuildFQName(namespace, "blocked_queries"), <<"hostname">>)

queuedQueries == NewDesc(BuildFQName(namespace, "queued_queries"), <<"hostname">>)

activeWorkers == NewDesc(BuildFQName(namespace, "active_workers"), <<"hostname">>)

runningDrivers == NewDesc(BuildFQName(namespace, "running_drivers"), <<"hostname">>)

reservedMemory == NewDesc(BuildFQName(namespace, "reserved_memory"), <<"hostname">>)

totalInputRows == NewDesc(BuildFQName(namespace, "total_input_rows"), <<"hostname">>)

totalInputBytes == NewDesc(BuildFQName(namespace, "total_input_bytes"), <<"hostname">>)

totalCpuTimeSecs == NewDesc(BuildFQName(namespace, "total_cpu_time_secs"), <<"hostname">>)

uptime == NewDesc(BuildFQName(namespace, "uptime"), <<"hostname">>)

querys ==
    NewDesc(BuildFQName(namespace, "querys"),
            <<"hostname", "queryId", "state", "scheduled", "query", "queuedTime",
              "elapsedTime", "executionTime", "totalDrivers", "rawInputDataSize",
              "cumulativeUserMemory", "PeakUserMemoryReservation", "totalCpuTime",
              "totalScheduledTime">>)

\* prometheus.MustNewConstMetric(desc, prometheus.GaugeValue, value, labelValues...)
MustNewConstMetric(desc, value, labelValues) ==
    [desc |-> desc.fqName, variableLabels |-> desc.variableLabels,
     valueType |-> "gauge", value |-> value, labelValues |-> labelValues]

\* ------------------------------------------------ the samples of Collect

\* ClusterMetrics with the values of blocked_queries and queued_queries swapped.
ClusterMetricsSwapped(ce, host) ==
    << MustNewConstMetric(runningQueries, ce.RunningQueries, <<host>>),
       MustNewConstMetric(blockedQueries, ce.QueuedQueries, <<host>>),
       MustNewConstMetric(queuedQueries, ce.BlockedQueries, <<host>>),
       MustNewConstMetric(activeWorkers, ce.ActiveWorkers, <<host>>),
       MustNewConstMetric(runningDrivers, ce.RunningDrivers, <<host>>),
       MustNewConstMetric(reservedMemory, ce.ReservedMemory, <<host>>),
       MustNewConstMetric(totalInputRows, ce.TotalInputRows, <<host>>),
       MustNewConstMetric(totalInputBytes, ce.TotalInputBytes, <<host>>),
       MustNewConstMetric(totalCpuTimeSecs, ce.TotalCpuTimeSecs, <<host>>) >>

\* The nine sends of the cluster gauges.
ClusterMetrics(ce, host) ==
    << MustNewConstMetric(runningQueries, ce.RunningQueries, <<host>>),
       MustNewConstMetric(blockedQueries, ce.BlockedQueries, <<host>>),
       MustNewConstMetric(queuedQueries, ce.QueuedQueries, <<host>>),
       MustNewConstMetric(activeWorkers, ce.ActiveWorkers, <<host>>),
       MustNewConstMetric(runningDrivers, ce.RunningDrivers, <<host>>),
       MustNewConstMetric(reservedMemory, ce.ReservedMemory, <<host>>),
       MustNewConstMetric(totalInputRows, ce.TotalInputRows, <<host>>),
       MustNewConstMetric(totalInputBytes, ce.TotalInputBytes, <<host>>),
       MustNewConstMetric(totalCpuTimeSecs, ce.TotalCpuTimeSecs, <<host>>) >>

\* The send of the uptime gauge.
UptimeMetric(ie, host) == MustNewConstMetric(uptime, UptimeF(ie.Uptime), <<host>>)

\* The labels of one iteration of the loop over queryExporter.Querys.
QueryLabels(v, host) ==
    << host,
       v.QueryId,
       v.State,
       FormatBool(v.Scheduled),
       v.Query,
       v.QueryStats.QueuedTime,
       v.QueryStats.ElapsedTime,
       v.QueryStats.ExecutionTime,
       Itoa(v.QueryStats.TotalDrivers),
       v.QueryStats.RawInputDataSize,
       FormatFloat(v.QueryStats.CumulativeUserMemory),
       v.QueryStats.PeakUserMemoryReservation,
       v.QueryStats.TotalCpuTime,
       v.QueryStats.TotalScheduledTime >>

\* QueryMetrics with a loop that walks the slice from its last element.
QueryMetricsReversed(qs, host) ==
    [i \in 1..Len(qs) |->
        MustNewConstMetric(querys,
                           qs[Len(qs) + 1 - i].QueryStats.CumulativeUserMemory,
                           QueryLabels(qs[Len(qs) + 1 - i], host))]

\* The sends of the loop over queryExporter.Querys, in the slice's order.
QueryMetrics(qs, host) ==
    [i \in 1..Len(qs) |->
        MustNewConstMetric(querys, qs[i].QueryStats.CumulativeUserMemory,
                           QueryLabels(qs[i], host))]

\* Every send of Collect after the three stages, in program order.
Metrics(ce, ie, qs, host) ==
    ClusterMetrics(ce, host) \o <<UptimeMetric(ie, host)>> \o QueryMetrics(qs, host)

\* ------------------------------------------------------------- upstream

StageNames == {Stages[i] : i \in DOMAIN Stages}

\* e.uri + "/v1/cluster", e.uri + "/v1/info", e.uri + "/v1/query"
URL(s) == uri \o "/v1/" \o s

StatusCodes == {StatusOK, 500}

NoResponse == [status |-> 0, readErr |-> FALSE, valid |-> FALSE, doc |-> <<>>]

NoBody == [valid |-> FALSE, doc |-> <<>>]

\* What the coordinator may answer on endpoint s once the connection is
\* made: a status other than 200, a body that breaks off, bytes that are
\* not JSON of the expected shape, or one of its documents.
Responses(s) ==
    {[status |-> c, readErr |-> FALSE, valid |-> FALSE, doc |-> <<>>] :
        c \in StatusCodes \ {StatusOK}}
      \cup {[status |-> StatusOK, readErr |-> TRUE, valid |-> FALSE, doc |-> <<>>],
            [status |-> StatusOK, readErr |-> FALSE, valid |-> FALSE, doc |-> <<>>]}
      \cup {[status |-> StatusOK, readErr |-> FALSE, valid |-> TRUE, doc |-> d] :
              d \in upstream[s]}

\* ------------------------------------------------------------- errors

NilErr == "<nil>"

TransportErr(url) == "Get " \o url \o ": connection refused"

ReadErr == "unexpected EOF"

SyntaxErr == "invalid character '<' looking for beginning of value"

\* fmt's rendering of log.Errorf("%s", err)
Sprintf(e) == IF e = NilErr THEN "%!s(<nil>)" ELSE e

\* log.Errorf("%s", e) by goroutine p; scrape tags the entry with the
\* invocation that wrote it.
Errorf(p, e) == Append(log, [level |-> "error", msg |-> Sprintf(e), scrape |-> id[p]])

\* ------------------------------------------------------------- Collect

Stg(p) == Stages[stage[p]]

Deferred(p) == {defers[p][i] : i \in DOMAIN defers[p]}

\* The deferred Body.Close calls run as the function returns.
RunDefers(p) ==
    [s \in StageNames |-> IF s \in Deferred(p) THEN "closed" ELSE bodies[p][s]]

\* log.Errorf("%s", err); return -- with e the value of err at that point.
Abort(p, e) ==
    /\ log' = Errorf(p, e)
    /\ pc' = [pc EXCEPT ![p] = "abort"]
    /\ bodies' = [bodies EXCEPT ![p] = RunDefers(p)]
    /\ defers' = [defers EXCEPT ![p] = <<>>]

\* The state after main has registered the Exporter: nothing scraped yet.
\* hosts: what os.Hostname() may have returned; docs: the coordinator's
\* documents; gs: the goroutines the registry calls Collect on; n: the
\* number of scrapes to come.
Startup(hosts, docs, gs, n) ==
    /\ uri = "http://localhost:8080"
    /\ hostname \in hosts
    /\ upstream = docs
    /\ scrapers = gs
    /\ scrapesLeft = n
    /\ pc = [p \in Procs |-> "idle"]
    /\ stage = [p \in Procs |-> 1]
    /\ id = [p \in Procs |-> 0]
    /\ resp = [p \in Procs |-> [s \in StageNames |-> NoResponse]]
    /\ err = [p \in Procs |-> NilErr]
    /\ bodies = [p \in Procs |-> [s \in StageNames |-> "none"]]
    /\ defers = [p \in Procs |-> <<>>]
    /\ read = [p \in Procs |-> [s \in StageNames |-> NoBody]]
    /\ clusterExporter = [p \in Procs |-> ZeroClusterExporter]
    /\ infoExporter = [p \in Procs |-> ZeroInfoExporter]
    /\ queryExporter = [p \in Procs |-> <<>>]
    /\ ch = [p \in Procs |-> <<>>]
    /\ requests = [p \in Procs |-> <<>>]
    /\ log = <<>>

Documents ==
    [cluster |-> {ClusterDocFull, ClusterDocPartial},
     info |-> {InfoDoc(<<"1", "0", "d">>)},
     query |-> {QueryList(n) : n \in 0..MaxQueries}]

\* Scrapes may overlap: every goroutine of Procs may run Collect.
Init == Startup(Hostnames, Documents, Procs, MaxScrapes)

\* Scrapes follow one another on one goroutine.
InitSeq == Startup(Hostnames, Documents, {1}, MaxScrapes)

\* One scrape of a coordinator whose uptime is some text of UptimeTexts.
InitUptime ==
    \E u \in UptimeTexts :
        Startup({"exporter-1"},
                [cluster |-> {ClusterDocFull},
                 info |-> {InfoDoc(u)},
                 query |-> {QueryList(1)}],
                {1}, 1)

\* Start with the three snapshots kept from the previous invocation instead
\* of being zero again.
StartStale(p) ==
    /\ p \in scrapers
    /\ pc[p] \in {"idle", "abort", "done"}
    /\ scrapesLeft > 0
    /\ scrapesLeft' = scrapesLeft - 1
    /\ id' = [id EXCEPT ![p] = scrapesLeft]
    /\ pc' = [pc EXCEPT ![p] = "get"]
    /\ stage' = [stage EXCEPT ![p] = 1]
    /\ resp' = [resp EXCEPT ![p] = [s \in StageNames |-> NoResponse]]
    /\ err' = [err EXCEPT ![p] = NilErr]
    /\ bodies' = [bodies EXCEPT ![p] = [s \in StageNames |-> "none"]]
    /\ defers' = [defers EXCEPT ![p] = <<>>]
    /\ read' = [read EXCEPT ![p] = [s \in StageNames |-> NoBody]]
    /\ ch' = [ch EXCEPT ![p] = <<>>]
    /\ requests' = [requests EXCEPT ![p] = <<>>]
    /\ UNCHANGED <<uri, hostname, upstream, scrapers, log, clusterExporter,
                   infoExporter, queryExporter>>

\* The registry calls Collect on a goroutine p that runs no invocation: a
\* new frame and a new channel.  The locals the function declares further
\* down (clusterExporter, infoExporter, queryExporter) are zero from here.
Start(p) ==
    /\ p \in scrapers
    /\ pc[p] \in {"idle", "abort", "done"}
    /\ scrapesLeft > 0
    /\ scrapesLeft' = scrapesLeft - 1
    /\ id' = [id EXCEPT ![p] = scrapesLeft]
    /\ pc' = [pc EXCEPT ![p] = "get"]
    /\ stage' = [stage EXCEPT ![p] = 1]
    /\ resp' = [resp EXCEPT ![p] = [s \in StageNames |-> NoResponse]]
    /\ err' = [err EXCEPT ![p] = NilErr]
    /\ bodies' = [bodies EXCEPT ![p] = [s \in StageNames |-> "none"]]
    /\ defers' = [defers EXCEPT ![p] = <<>>]
    /\ read' = [read EXCEPT ![p] = [s \in StageNames |-> NoBody]]
    /\ clusterExporter' = [clusterExporter EXCEPT ![p] = ZeroClusterExporter]
    /\ infoExporter' = [infoExporter EXCEPT ![p] = ZeroInfoExporter]
    /\ queryExporter' = [queryExporter EXCEPT ![p] = <<>>]
    /\ ch' = [ch EXCEPT ![p] = <<>>]
    /\ requests' = [requests EXCEPT ![p] = <<>>]
    /\ UNCHANGED <<uri, hostname, upstream, scrapers, log>>

\* resp, err := http.Get(e.uri + "/v1/<stage>"); if err != nil { log; return }
Get(p) ==
    /\ pc[p] = "get"
    /\ requests' = [requests EXCEPT ![p] = Append(@, URL(Stg(p)))]
    /\ \/ /\ err' = [err EXCEPT ![p] = TransportErr(URL(Stg(p)))]
          /\ Abort(p, TransportErr(URL(Stg(p))))
          /\ UNCHANGED resp
       \/ \E r \in Responses(Stg(p)) :
            /\ resp' = [resp EXCEPT ![p][Stg(p)] = r]
            /\ err' = [err EXCEPT ![p] = NilErr]
            /\ bodies' = [bodies EXCEPT ![p][Stg(p)] = "open"]
            /\ pc' = [pc EXCEPT ![p] = "status"]
            /\ UNCHANGED <<defers, log>>
    /\ UNCHANGED <<uri, hostname, upstream, scrapers, scrapesLeft, stage, id, read,
                   clusterExporter, infoExporter, queryExporter, ch>>

\* CheckStatus that logs a status other than 200 and requests the endpoint
\* again instead of returning.
CheckStatusRetry(p) ==
    /\ pc[p] = "status"
    /\ IF resp[p][Stg(p)].status # StatusOK
       THEN /\ log' = Errorf(p, err[p])
            /\ pc' = [pc EXCEPT ![p] = "get"]
            /\ UNCHANGED <<bodies, defers>>
       ELSE /\ pc' = [pc EXCEPT ![p] = "defer"]
            /\ UNCHANGED <<bodies, defers, log>>
    /\ UNCHANGED <<uri, hostname, upstream, scrapers, scrapesLeft, stage, id,
                   resp, err, read, clusterExporter, infoExporter,
                   queryExporter, ch, requests>>

\* if resp.StatusCode != 200 { log.Errorf("%s", err); return }
CheckStatus(p) ==
    /\ pc[p] = "status"
    /\ IF resp[p][Stg(p)].status # StatusOK
       THEN Abort(p, err[p])
       ELSE /\ pc' = [pc EXCEPT ![p] = "defer"]
            /\ UNCHANGED <<bodies, defers, log>>
    /\ UNCHANGED <<uri, hostname, upstream, scrapers, scrapesLeft, stage, id, resp, err,
                   read, clusterExporter, infoExporter, queryExporter, ch,
                   requests>>

\* defer resp.Body.Close()
Defer(p) ==
    /\ pc[p] = "defer"
    /\ defers' = [defers EXCEPT ![p] = Append(@, Stg(p))]
    /\ pc' = [pc EXCEPT ![p] = "read"]
    /\ UNCHANGED <<uri, hostname, upstream, scrapers, scrapesLeft, stage, id, resp, err,
                   bodies, read, clusterExporter, infoExporter, queryExporter,
                   ch, requests, log>>

\* body, err := ioutil.ReadAll(resp.Body); if err != nil { log; return }
ReadAll(p) ==
    /\ pc[p] = "read"
    /\ IF resp[p][Stg(p)].readErr
       THEN /\ err' = [err EXCEPT ![p] = ReadErr]
            /\ Abort(p, ReadErr)
            /\ UNCHANGED read
       ELSE /\ err' = [err EXCEPT ![p] = NilErr]
            /\ read' = [read EXCEPT ![p][Stg(p)] =
                          [valid |-> resp[p][Stg(p)].valid, doc |-> resp[p][Stg(p)].doc]]
            /\ pc' = [pc EXCEPT ![p] = "unmarshal"]
            /\ UNCHANGED <<bodies, defers, log>>
    /\ UNCHANGED <<uri, hostname, upstream, scrapers, scrapesLeft, stage, id, resp,
                   clusterExporter, infoExporter, queryExporter, ch, requests>>

\* Decode into snapshots that all goroutines share.
DecodeShared(p) ==
    LET doc == read[p][Stg(p)].doc
    IN /\ clusterExporter' =
            IF Stg(p) = "cluster"
            THEN [q \in Procs |-> UnmarshalCluster(clusterExporter[p], doc)]
            ELSE clusterExporter
       /\ infoExporter' =
            IF Stg(p) = "info"
            THEN [q \in Procs |-> UnmarshalInfo(infoExporter[p], doc)]
            ELSE infoExporter
       /\ queryExporter' =
            IF Stg(p) = "query"
            THEN [q \in Procs |-> UnmarshalQuerys(queryExporter[p], doc)]
            ELSE queryExporter

\* err = json.Unmarshal(body, &target) of the stage p is in.
Decode(p) ==
    LET doc == read[p][Stg(p)].doc
    IN /\ clusterExporter' =
            IF Stg(p) = "cluster"
            THEN [clusterExporter EXCEPT ![p] = UnmarshalCluster(@, doc)]
            ELSE clusterExporter
       /\ infoExporter' =
            IF Stg(p) = "info"
            THEN [infoExporter EXCEPT ![p] = UnmarshalInfo(@, doc)]
            ELSE infoExporter
       /\ queryExporter' =
            IF Stg(p) = "query"
            THEN [queryExporter EXCEPT ![p] = UnmarshalQuerys(@, doc)]
            ELSE queryExporter

\* Unmarshal that sends the nine cluster gauges as soon as the cluster
\* document is decoded.
UnmarshalSendsEarly(p) ==
    /\ pc[p] = "unmarshal"
    /\ IF ~read[p][Stg(p)].valid
       THEN /\ err' = [err EXCEPT ![p] = SyntaxErr]
            /\ Abort(p, SyntaxErr)
            /\ UNCHANGED <<stage, clusterExporter, infoExporter, queryExporter, ch>>
       ELSE /\ err' = [err EXCEPT ![p] = NilErr]
            /\ Decode(p)
            /\ ch' = IF Stg(p) = "cluster"
                     THEN [ch EXCEPT ![p] = ClusterMetrics(clusterExporter'[p], hostname)]
                     ELSE ch
            /\ IF stage[p] < Len(Stages)
               THEN /\ stage' = [stage EXCEPT ![p] = @ + 1]
                    /\ pc' = [pc EXCEPT ![p] = "get"]
               ELSE /\ pc' = [pc EXCEPT ![p] = "emit"]
                    /\ UNCHANGED stage
            /\ UNCHANGED <<bodies, defers, log>>
    /\ UNCHANGED <<uri, hostname, upstream, scrapers, scrapesLeft, id, resp,
                   read, requests>>

\* err = json.Unmarshal(body, &target); if err != nil { log; return }; then
\* on to the next stage, or to the sends after the query stage.
Unmarshal(p) ==
    /\ pc[p] = "unmarshal"
    /\ IF ~read[p][Stg(p)].valid
       THEN /\ err' = [err EXCEPT ![p] = SyntaxErr]
            /\ Abort(p, SyntaxErr)
            /\ UNCHANGED <<stage, clusterExporter, infoExporter, queryExporter>>
       ELSE /\ err' = [err EXCEPT ![p] = NilErr]
            /\ Decode(p)
            /\ IF stage[p] < Len(Stages)
               THEN /\ stage' = [stage EXCEPT ![p] = @ + 1]
                    /\ pc' = [pc EXCEPT ![p] = "get"]
               ELSE /\ pc' = [pc EXCEPT ![p] = "emit"]
                    /\ UNCHANGED stage
            /\ UNCHANGED <<bodies, defers, log>>
    /\ UNCHANGED <<uri, hostname, upstream, scrapers, scrapesLeft, id, resp, read, ch,
                   requests>>

\* The samples goroutine p sends, from its locals and the package's hostname.
Pending(p) == Metrics(clusterExporter[p], infoExporter[p], queryExporter[p], hostname)

\* ch <- prometheus.MustNewConstMetric(...): the next send
Emit(p) ==
    /\ pc[p] = "emit"
    /\ Len(ch[p]) < Len(Pending(p))
    /\ ch' = [ch EXCEPT ![p] = Append(@, Pending(p)[Len(@) + 1])]
    /\ UNCHANGED <<uri, hostname, upstream, scrapers, scrapesLeft, pc, stage, id, resp,
                   err, bodies, defers, read, clusterExporter, infoExporter,
                   queryExporter, requests, log>>

\* The end of Collect after the last send: the deferred closes run.
Return(p) ==
    /\ pc[p] = "emit"
    /\ Len(ch[p]) >= Len(Pending(p))
    /\ pc' = [pc EXCEPT ![p] = "done"]
    /\ bodies' = [bodies EXCEPT ![p] = RunDefers(p)]
    /\ defers' = [defers EXCEPT ![p] = <<>>]
    /\ UNCHANGED <<uri, hostname, upstream, scrapers, scrapesLeft, stage, id, resp, err,
                   read, clusterExporter, infoExporter, queryExporter, ch,
                   requests, log>>

Next ==
    \E p \in Procs :
        \/ Start(p)
        \/ Get(p)
        \/ CheckStatus(p)
        \/ Defer(p)
        \/ ReadAll(p)
        \/ Unmarshal(p)
        \/ Emit(p)
        \/ Return(p)

Spec == Init /\ [][Next]_vars

SpecSeq == InitSeq /\ [][Next]_vars

SpecUptime == InitUptime /\ [][Next]_vars

\* ------------------------------------------------------------ properties

Aborted(p) == pc[p] = "abort"

Done(p) == pc[p] = "done"

\* The coordinator answered stage s of p's invocation with status 200, a
\* body that reads to the end, and a document that decodes.
StageOK(p, s) ==
    /\ resp[p][s].status = StatusOK
    /\ ~resp[p][s].readErr
    /\ resp[p][s].valid

AllStagesOK(p) == \A s \in StageNames : StageOK(p, s)

\* The stage whose failure ended p's invocation: the last one requested.
FailedStage(p) == Stages[Len(requests[p])]

IsPrefix(a, b) == Len(a) <= Len(b) /\ \A i \in 1..Len(a) : a[i] = b[i]

\* The document the coordinator served p on endpoint s.
Served(p, s) == resp[p][s].doc

\* What one invocation emits from the three documents served to p when
\* nothing precedes it: each decoded into a zero snapshot.
FreshMetrics(p) ==
    Metrics(UnmarshalCluster(ZeroClusterExporter, Served(p, "cluster")),
            UnmarshalInfo(ZeroInfoExporter, Served(p, "info")),
            UnmarshalQuerys(<<>>, Served(p, "query")),
            hostname)

\* The log entries written by the invocation p is running or has ended.
LoggedBy(p) == {i \in DOMAIN log : log[i].scrape = id[p]}

\* C1: an invocation sends a sample only after the fetch, status check, read
\* and decode of all three stages succeeded; an invocation that aborted
\* has sent none.
C1_AllOrNothing ==
    \A p \in Procs :
        /\ ch[p] # <<>> => AllStagesOK(p)
        /\ Aborted(p) => ch[p] = <<>>

\* C1 witness: an invocation aborted by a decode error at the last stage,
\* after two good stages, with nothing sent.
C1_Witness ==
    \E p \in Procs :
        /\ Aborted(p)
        /\ Len(requests[p]) = 3
        /\ StageOK(p, "cluster") /\ StageOK(p, "info")
        /\ resp[p]["query"].status = StatusOK
        /\ ~resp[p]["query"].readErr
        /\ ~resp[p]["query"].valid
        /\ ch[p] = <<>>

\* C2: the requests of an invocation are a prefix of /v1/cluster, /v1/info,
\* /v1/query under the base URL, and a request past the first is made only
\* when every earlier stage succeeded.
C2_RequestPrefix ==
    \A p \in Procs :
        /\ IsPrefix(requests[p],
                    <<uri \o "/v1/cluster", uri \o "/v1/info", uri \o "/v1/query">>)
        /\ \A k \in 2..Len(requests[p]) : StageOK(p, Stages[k - 1])

\* C2 witness: an invocation that failed at the info stage and ended having
\* requested /v1/cluster and /v1/info only.
C2_Witness ==
    \E p \in Procs :
        /\ Aborted(p)
        /\ Len(requests[p]) = 2
        /\ ~StageOK(p, "info")

\* C3: an invocation that completes has emitted exactly what its three
\* documents yield when decoded into zero snapshots, whatever earlier
\* invocations did; and each step that aborts an invocation appends one
\* entry of error severity to the log.
C3_NoResidue ==
    /\ [](\A p \in Procs : Done(p) => ch[p] = FreshMetrics(p))
    /\ [][\A p \in Procs :
            (~Aborted(p) /\ Aborted(p)') =>
                /\ Len(log') = Len(log) + 1
                /\ log'[Len(log')].level = "error"]_vars

\* C3 witness: a completed invocation that follows a failed one.
C3_Witness ==
    \E p \in Procs :
        /\ Done(p)
        /\ Len(log) >= 1
        /\ \A i \in DOMAIN log : log[i].scrape # id[p]
        /\ "runningQueries" \in DOMAIN Served(p, "cluster")

\* The gauges of section 6 of the specification, with the ClusterSnapshot
\* field each one carries.
ClusterGauges ==
    << [field |-> "runningQueries", gauge |-> "presto_cluster_running_queries"],
       [field |-> "blockedQueries", gauge |-> "presto_cluster_blocked_queries"],
       [field |-> "queuedQueries", gauge |-> "presto_cluster_queued_queries"],
       [field |-> "activeWorkers", gauge |-> "presto_cluster_active_workers"],
       [field |-> "runningDrivers", gauge |-> "presto_cluster_running_drivers"],
       [field |-> "reservedMemory", gauge |-> "presto_cluster_reserved_memory"],
       [field |-> "totalInputRows", gauge |-> "presto_cluster_total_input_rows"],
       [field |-> "totalInputBytes", gauge |-> "presto_cluster_total_input_bytes"],
       [field |-> "totalCpuTimeSecs", gauge |-> "presto_cluster_total_cpu_time_secs"] >>

\* C4: a completed invocation whose query list has N records has emitted
\* 10 + N samples: the nine cluster gauges, the uptime gauge, then one
\* querys gauge per record, in the list's order.
C4_SampleCount ==
    \A p \in Procs :
        Done(p) =>
            LET qs == Served(p, "query")
            IN /\ Len(ch[p]) = 10 + Len(qs)
               /\ \A i \in 1..9 : ch[p][i].desc = ClusterGauges[i].gauge
               /\ ch[p][10].desc = "presto_cluster_uptime"
               /\ \A j \in 1..Len(qs) :
                    /\ ch[p][10 + j].desc = "presto_cluster_querys"
                    /\ ch[p][10 + j].labelValues[2] = qs[j].queryId

\* C4 witness: a completed invocation over a list of at least two queries.
C4_Witness ==
    \E p \in Procs : Done(p) /\ Len(Served(p, "query")) >= 2

\* C5: each of the nine cluster samples sent carries the value of its own
\* field of the served cluster document, under its own gauge, with the
\* hostname as its only label.
C5_ClusterIdentity ==
    \A p \in Procs :
        \A i \in 1..9 :
            i <= Len(ch[p]) =>
                LET doc == Served(p, "cluster")
                    f == ClusterGauges[i].field
                IN /\ ch[p][i].desc = ClusterGauges[i].gauge
                   /\ f \in DOMAIN doc => ch[p][i].value = Float(doc[f])
                   /\ ch[p][i].labelValues = <<hostname>>
                   /\ Len(ch[p][i].variableLabels) = 1

\* C5 witness: all nine cluster samples sent from a document that sets all
\* nine fields to different values.
C5_Witness ==
    \E p \in Procs :
        /\ Len(ch[p]) >= 9
        /\ DOMAIN Served(p, "cluster") = {ClusterGauges[i].field : i \in 1..9}
        /\ \A i, j \in 1..9 : i # j => ch[p][i].value # ch[p][j].value

\* The float64 v is the rational n/d.
IsRational(v, n, d) ==
    IF v.e >= 0 THEN v.m * Pow2(v.e) * d = n ELSE v.m * d = n * Pow2(-v.e)

\* The uptime text the coordinator served p.
ServedUptime(p) == Served(p, "info").uptime

\* C6: the uptime sample is the day count written before the trailing "d":
\* 10 for "10d", 0.5 for "0.5d", 5.2 for "5.2d"; and an invocation whose
\* three stages succeeded is not aborted, whatever the uptime text.
C6_UptimeDays ==
    \A p \in Procs :
        /\ Len(ch[p]) >= 10 =>
            /\ ServedUptime(p) = <<"1", "0", "d">> => IsRational(ch[p][10].value, 10, 1)
            /\ ServedUptime(p) = <<"0", ".", "5", "d">> => IsRational(ch[p][10].value, 5, 10)
            /\ ServedUptime(p) = <<"5", ".", "2", "d">> => IsRational(ch[p][10].value, 52, 10)
        /\ AllStagesOK(p) => ~Aborted(p)

\* The number n >= 0 in scientific notation with all its digits, the
\* trailing zeros dropped.
RECURSIVE StripZeros(_)
StripZeros(n) == IF n > 0 /\ n % 10 = 0 THEN StripZeros(n \div 10) ELSE n

ExactSci(n) ==
    IF n = 0 THEN "0E+00"
    ELSE FmtE(StripZeros(n), NumDigits(StripZeros(n)), NumDigits(n) - 1)

\* The text of the field of QueryRecord q that label `name` stands for.
FieldText(q, name, host) ==
    CASE name = "hostname" -> host
      [] name = "queryId" -> q.queryId
      [] name = "state" -> q.state
      [] name = "scheduled" -> (IF q.scheduled THEN "true" ELSE "false")
      [] name = "query" -> q.query
      [] name = "queuedTime" -> q.queryStats.queuedTime
      [] name = "elapsedTime" -> q.queryStats.elapsedTime
      [] name = "executionTime" -> q.queryStats.executionTime
      [] name = "totalDrivers" -> Digits(q.queryStats.totalDrivers)
      [] name = "rawInputDataSize" -> q.queryStats.rawInputDataSize
      [] name = "cumulativeUserMemory" -> ExactSci(q.queryStats.cumulativeUserMemory)
      [] name = "PeakUserMemoryReservation" -> q.queryStats.peakUserMemoryReservation
      [] name = "totalCpuTime" -> q.queryStats.totalCpuTime
      [] name = "totalScheduledTime" -> q.queryStats.totalScheduledTime

\* C7: the sample of every QueryRecord has the record's cumulativeUserMemory
\* as value and 14 label values, one per label name of the descriptor, each
\* the text of the field its name stands for, the hostname first.
C7_LabelRoundTrip ==
    \A p \in Procs :
        \A j \in 1..Len(Served(p, "query")) :
            10 + j <= Len(ch[p]) =>
                LET q == Served(p, "query")[j]
                    m == ch[p][10 + j]
                IN /\ m.value = Float(q.queryStats.cumulativeUserMemory)
                   /\ Len(m.labelValues) = 14
                   /\ Len(m.variableLabels) = 14
                   /\ m.labelValues[1] = hostname
                   /\ \A i \in 1..14 :
                        m.labelValues[i] = FieldText(q, m.variableLabels[i], hostname)

\* C8: whatever the interleaving, the samples an invocation has sent are
\* the first samples its own three documents yield, and no step writes the
\* base URL or the hostname.
C8_SelfContained ==
    /\ [](\A p \in Procs : ch[p] # <<>> => IsPrefix(ch[p], FreshMetrics(p)))
    /\ [][uri' = uri /\ hostname' = hostname]_vars

\* C8 witness: two invocations in the middle of their sends at once, served
\* different cluster documents and query lists.
C8_Witness ==
    \E p, q \in Procs :
        /\ p # q
        /\ pc[p] = "emit" /\ pc[q] = "emit"
        /\ Len(ch[p]) \in 1..9 /\ Len(ch[q]) \in 1..9
        /\ DOMAIN Served(p, "cluster") # DOMAIN Served(q, "cluster")
        /\ Len(Served(p, "query")) # Len(Served(q, "query"))

\* C9: an aborted invocation has written exactly one log entry, of error
\* severity, that carries the cause of the failure (the error of the failed
\* call, or for a status other than 200 something other than a nil error),
\* and has sent nothing.
C9_OneErrorWithCause ==
    \A p \in Procs :
        Aborted(p) =>
            LET r == resp[p][FailedStage(p)]
            IN /\ Cardinality(LoggedBy(p)) = 1
               /\ ch[p] = <<>>
               /\ \A i \in LoggedBy(p) :
                    /\ log[i].level = "error"
                    /\ r.status = 0 => log[i].msg = TransportErr(URL(FailedStage(p)))
                    /\ r.status \notin {0, StatusOK} => log[i].msg # Sprintf(NilErr)
                    /\ (r.status = StatusOK /\ r.readErr) => log[i].msg = ReadErr
                    /\ (r.status = StatusOK /\ ~r.readErr) => log[i].msg = SyntaxErr

\* C10: when an invocation has returned, no response body it obtained is
\* still open.
C10_BodiesClosed ==
    \A p \in Procs :
        (Aborted(p) \/ Done(p)) => \A s \in StageNames : bodies[p][s] # "open"

=============================================================================
